---- MODULE Spec2Model ----
(***************************************************************************)
(* CACTUS-tools: the structured field-grid data model of pyCactus          *)
(* (CactusField, CactusWakeGrid) and its time statistics.                  *)
(*                                                                         *)
(* Numbers.  A float is modelled by the integer it holds (every integer    *)
(* used here is exactly representable as a float64).  np.float32 keeps 24   *)
(* significant bits, so Float32 rounds an integer to the nearest integer   *)
(* with a 24-bit significand, ties to even.  A true division a/n is kept   *)
(* as the reduced fraction <<p, q>> (the float nearest to p/q).            *)
(*                                                                         *)
(* Arrays.  An n-d numpy array is a nested sequence, outermost axis first, *)
(* indexed from 1 (numpy index k is TLA+ index k+1).                       *)
(***************************************************************************)
EXTENDS Integers, Sequences, FiniteSets, TLC

VARIABLES
    df,       \* the table handed to fielddata_from_df or to CactusWakeGrid
    grid,     \* what fielddata_from_df returned for df
    files,    \* the data files of a run, in the order of the filenames list
    grd,      \* the coordinate axes <<xs, ys, zs>> the files were written on
    cf,       \* the CactusField object built from files
    wake,     \* the CactusWakeGrid object built from df
    series,   \* a field sampled in time: its times and its values
    probes,   \* the CactusProbes object
    ret       \* the last call: its name, arguments and outcome

vars == <<df, grid, files, grd, cf, wake, series, probes, ret>>

\* ------------------------------------------------------------------------
\* Bounds of the model
\* ------------------------------------------------------------------------
MaxRows == 3
MaxAxis == 2
MaxFiles == 3

\* significand bits of np.float32
Float32Bits == 24

\* ------------------------------------------------------------------------
\* Column names
\* ------------------------------------------------------------------------
time_col_name == "Normalized Time (-)"
x_col_name == "X/R (-)"
y_col_name == "Y/R (-)"
z_col_name == "Z/R (-)"
u_col_name == "U/Uinf (-)"
v_col_name == "V/Uinf (-)"
w_col_name == "W/Uinf (-)"
ufs_col_name == "Ufs/Uinf (-)"
vfs_col_name == "Vfs/Uinf (-)"
wfs_col_name == "Wfs/Uinf (-)"

BaseCols == {time_col_name, x_col_name, y_col_name, z_col_name,
             u_col_name, v_col_name, w_col_name}
FsCols == {ufs_col_name, vfs_col_name, wfs_col_name}

\* ------------------------------------------------------------------------
\* Numbers
\* ------------------------------------------------------------------------
Abs(a) == IF a < 0 THEN -a ELSE a

Range(s) == {s[i] : i \in DOMAIN s}

SetMin(S) == CHOOSE m \in S : \A o \in S : m <= o
SetMax(S) == CHOOSE m \in S : \A o \in S : m >= o

RECURSIVE Gcd(_, _)
Gcd(a, b) == IF b = 0 THEN a ELSE Gcd(b, a % b)

\* spacing of the float32 values around the magnitude a
Ulp32(a) == IF a < 2^Float32Bits THEN 1
            ELSE IF a < 2^(Float32Bits + 1) THEN 2
            ELSE IF a < 2^(Float32Bits + 2) THEN 4
            ELSE 8

\* a rounded to a multiple of the float32 spacing, ties to the even significand
Round32(a) ==
    LET ulp == Ulp32(a)
        q == a \div ulp
        r == a % ulp
    IN  IF 2 * r < ulp THEN q * ulp
        ELSE IF 2 * r > ulp THEN (q + 1) * ulp
        ELSE IF q % 2 = 0 THEN q * ulp ELSE (q + 1) * ulp

\* np.float32(v)
Float32(v) == IF v < 0 THEN -Round32(-v) ELSE Round32(v)

\* a / n (true division, n > 0) as a reduced fraction
Div(a, n) ==
    LET g == Gcd(Abs(a), n)
    IN  <<a \div g, n \div g>>

\* the spacing taken as the extent over the number of intervals
Spacing_intervals(lo, hi, n) == IF n = 1 THEN <<0, 1>> ELSE Div(hi - lo, n - 1)

\* dx = (xmax-xmin)/nx: the extent of an axis over its number of grid points
Spacing(lo, hi, n) == Div(hi - lo, n)

\* ------------------------------------------------------------------------
\* numpy arrays
\* ------------------------------------------------------------------------
Column(d, c) == [r \in 1..Len(d.rows) |-> d.rows[r][c]]

\* np.reshape with no size check, cycling through the data (np.resize)
Reshape3_resize(flat, nz, ny, nx) ==
    [err |-> "none",
     a |-> [k \in 1..nz |-> [j \in 1..ny |-> [i \in 1..nx |->
              flat[(((k - 1) * ny * nx + (j - 1) * nx + (i - 1)) % Len(flat)) + 1]]]]]

\* np.reshape filling the first axis fastest (Fortran order)
Reshape3_fortran(flat, nz, ny, nx) ==
    IF nz * ny * nx # Len(flat)
    THEN [err |-> "ValueError"]
    ELSE [err |-> "none",
          a |-> [k \in 1..nz |-> [j \in 1..ny |-> [i \in 1..nx |->
                   flat[(i - 1) * ny * nz + (j - 1) * nz + k]]]]]

\* np.reshape(flat, [nz, ny, nx]): row-major, the last index changes fastest;
\* fails unless the sizes agree
Reshape3(flat, nz, ny, nx) ==
    IF nz * ny * nx # Len(flat)
    THEN [err |-> "ValueError"]
    ELSE [err |-> "none",
          a |-> [k \in 1..nz |-> [j \in 1..ny |-> [i \in 1..nx |->
                   flat[(k - 1) * ny * nx + (j - 1) * nx + i]]]]]

RECURSIVE Concat(_)
Concat(ss) == IF ss = <<>> THEN <<>> ELSE Head(ss) \o Concat(Tail(ss))

\* A.flatten() of a 2-d and of a 3-d array, row-major
Ravel2(A) == Concat(A)
Ravel3(A) == Concat([k \in DOMAIN A |-> Ravel2(A[k])])

\* np.float32(A), elementwise on a 3-d array
Float32Array(A) ==
    [k \in DOMAIN A |-> [j \in DOMAIN A[k] |-> [i \in DOMAIN A[k][j] |->
        Float32(A[k][j][i])]]]

\* ------------------------------------------------------------------------
\* CactusField.fielddata_from_df
\* ------------------------------------------------------------------------
\* keys of grid_data and the column each one is read from
VelKeys == {"X", "Y", "Z", "U", "V", "W"}
FsKeys == {"Ufs", "Vfs", "Wfs"}
GridCol == [X |-> x_col_name, Y |-> y_col_name, Z |-> z_col_name,
            U |-> u_col_name, V |-> v_col_name, W |-> w_col_name,
            Ufs |-> ufs_col_name, Vfs |-> vfs_col_name, Wfs |-> wfs_col_name]

\* the table has the three freestream columns
HasVelFs(d) == FsCols \subseteq d.columns

fielddata_from_df(d) ==
    IF Len(d.rows) = 0
    THEN [err |-> "ValueError"]       \* y.min() of an empty array
    ELSE
    LET x == Column(d, x_col_name)
        y == Column(d, y_col_name)
        z == Column(d, z_col_name)
        xmin == SetMin(Range(x))
        xmax == SetMax(Range(x))
        ymin == SetMin(Range(y))
        ymax == SetMax(Range(y))
        zmin == SetMin(Range(z))
        zmax == SetMax(Range(z))
        nx == Cardinality(Range(x))
        ny == Cardinality(Range(y))
        nz == Cardinality(Range(z))
        R(c) == Reshape3(Column(d, c), nz, ny, nx)
        F(c) == Float32Array(R(c).a)
        cols == IF HasVelFs(d) THEN GridCol ELSE [key \in VelKeys |-> GridCol[key]]
    IN  IF R(x_col_name).err # "none"
        THEN [err |-> "ValueError"]
        ELSE [err |-> "none",
              grid_data |-> [key \in DOMAIN cols |-> F(cols[key])],
              grid_dims |-> [nx |-> nx, ny |-> ny, nz |-> nz,
                             dx |-> Spacing(xmin, xmax, nx),
                             dy |-> Spacing(ymin, ymax, ny),
                             dz |-> Spacing(zmin, zmax, nz),
                             xlim |-> <<xmin, xmax>>,
                             ylim |-> <<ymin, ymax>>,
                             zlim |-> <<zmin, zmax>>]]

\* ------------------------------------------------------------------------
\* Python sequences
\* ------------------------------------------------------------------------
Max2(a, b) == IF a > b THEN a ELSE b
Min2(a, b) == IF a < b THEN a ELSE b

\* a bound of seq[start:stop] brought into 0..n, negative bounds counted from the end
SliceBound(b, n) == IF b < 0 THEN Max2(b + n, 0) ELSE Min2(b, n)

\* seq[start:stop] that takes the element at stop too
PySlice_inclusive(seq, start, stop) ==
    SubSeq(seq, SliceBound(start, Len(seq)) + 1,
           Min2(SliceBound(stop, Len(seq)) + 1, Len(seq)))

\* seq[start:stop]
PySlice(seq, start, stop) ==
    SubSeq(seq, SliceBound(start, Len(seq)) + 1, SliceBound(stop, Len(seq)))

\* the elements of the finite set of numbers S in increasing order
RECURSIVE SortedSeq(_)
SortedSeq(S) ==
    IF S = {} THEN <<>> ELSE <<SetMin(S)>> \o SortedSeq(S \ {SetMin(S)})

\* np.sort descending
RECURSIVE Sort_descending(_)
Sort_descending(seq) ==
    IF seq = <<>> THEN <<>>
    ELSE LET m == SetMax(Range(seq))
             i == CHOOSE i \in DOMAIN seq : seq[i] = m
         IN  <<m>> \o Sort_descending(SubSeq(seq, 1, i - 1) \o SubSeq(seq, i + 1, Len(seq)))

\* np.sort(seq): increasing, duplicates kept
RECURSIVE Sort(_)
Sort(seq) ==
    IF seq = <<>> THEN <<>>
    ELSE LET m == SetMin(Range(seq))
             i == CHOOSE i \in DOMAIN seq : seq[i] = m
         IN  <<m>> \o Sort(SubSeq(seq, 1, i - 1) \o SubSeq(seq, i + 1, Len(seq)))

\* np.unique(A) of a 3-d array: its distinct values in increasing order
Unique3(A) == SortedSeq(Range(Ravel3(A)))

\* np.abs(x - p).argmin() for a float32 array x and a Python float p: the
\* difference is taken in single precision; the first minimum wins; from 0
ArgMinAbs(x, p) ==
    LET dist(i) == Abs(Float32(x[i] - Float32(p)))
    IN  (CHOOSE i \in DOMAIN x :
            /\ \A o \in DOMAIN x : dist(i) <= dist(o)
            /\ \A o \in DOMAIN x : dist(o) = dist(i) => i <= o) - 1

\* A + B of two float32 3-d arrays of one shape
AddArray(A, B) ==
    [k \in DOMAIN A |-> [j \in DOMAIN A[k] |-> [i \in DOMAIN A[k][j] |->
        Float32(A[k][j][i] + B[k][j][i])]]]

\* A / n
DivArray(A, n) ==
    [k \in DOMAIN A |-> [j \in DOMAIN A[k] |-> [i \in DOMAIN A[k][j] |->
        Div(A[k][j][i], n)]]]

\* ------------------------------------------------------------------------
\* CactusField
\* ------------------------------------------------------------------------
\* get_file_time(data_filename, time_col_name): the field of the first data
\* row under the first field of the header line that is exactly time_col_name.
\* file.header is header.split(','): the fields as they stand between the
\* commas, the last one with the line terminator.  Without a data row, row1
\* is '' and row1.split(',') is [''].
get_file_time(file) ==
    IF \A c \in DOMAIN file.header : file.header[c] # time_col_name
    THEN [err |-> "ValueError"]       \* list.index: not in list
    ELSE LET time_col_num ==
                 (CHOOSE c \in DOMAIN file.header :
                     /\ file.header[c] = time_col_name
                     /\ \A o \in DOMAIN file.header :
                           file.header[o] = time_col_name => c <= o) - 1
         IN  IF Len(file.df.rows) = 0
             THEN IF time_col_num = 0
                  THEN [err |-> "ValueError"]      \* float('')
                  ELSE [err |-> "IndexError"]      \* [''][time_col_num]
             ELSE [err |-> "none", time |-> file.df.rows[1][time_col_name]]

\* load_data(data_filename)
load_data(fs, fname) == fs[fname].df

\* CactusField.__init__(filenames), filenames being 1..Len(fs) in the order given
CactusField_init(fs) ==
    LET ts == [f \in DOMAIN fs |-> get_file_time(fs[f])]
        times == [f \in DOMAIN fs |-> ts[f].time]
        \* a later file with the same time replaces the earlier one
        fdict == [t \in Range(times) |->
                    CHOOSE f \in DOMAIN fs :
                        /\ times[f] = t
                        /\ \A o \in DOMAIN fs : times[o] = t => o <= f]
        first == fielddata_from_df(load_data(fs, 1))
        failed == {f \in DOMAIN fs : ts[f].err # "none"}
    IN  IF failed # {} THEN [err |-> ts[SetMin(failed)].err]
        ELSE IF first.err # "none" THEN [err |-> first.err]
        ELSE [err |-> "none",
              filenames |-> [f \in DOMAIN fs |-> f],
              num_times |-> Len(fs),
              times |-> Sort(times),
              fdict |-> fdict,
              grid_dims |-> first.grid_dims]

\* CactusField.get_df_inst(time=time)
get_df_inst(self, fs, time) == load_data(fs, self.fdict[time])

\* the loop of field_time_average over window[ti..], acc holding the sums so
\* far (ti counted from 1 here)
RECURSIVE SumFields(_, _, _, _, _)
SumFields(self, fs, window, ti, acc) ==
    IF ti > Len(window) THEN acc
    ELSE LET g == fielddata_from_df(get_df_inst(self, fs, window[ti]))
         IN  IF g.err # "none" THEN [err |-> g.err]
             ELSE IF \E key \in FsKeys : key \notin DOMAIN g.grid_data
             THEN [err |-> "KeyError"]      \* grid_data['Ufs']
             ELSE IF ti = 1
             THEN SumFields(self, fs, window, ti + 1,
                            [err |-> "none", sums |-> g.grid_data])
             ELSE SumFields(self, fs, window, ti + 1,
                    [err |-> "none",
                     sums |-> [key \in DOMAIN acc.sums |->
                                 IF key \in {"X", "Y", "Z"} THEN acc.sums[key]
                                 ELSE AddArray(acc.sums[key], g.grid_data[key])]])

\* field_time_average that returns the empty time list for an empty window
field_time_average_lenient(self, fs, ti_start, ti_end) ==
    LET window == PySlice(self.times, ti_start, ti_end)
        num_times == Len(window)
        total == SumFields(self, fs, window, 1, [err |-> "none"])
    IN  IF total.err # "none" THEN [err |-> total.err]
        ELSE IF num_times = 0 THEN [err |-> "none", data |-> [key \in {"t"} |-> window]]
        ELSE [err |-> "none",
              data |-> [key \in DOMAIN total.sums \cup {"t"} |->
                          IF key = "t" THEN window
                          ELSE IF key \in {"X", "Y", "Z"} THEN total.sums[key]
                          ELSE DivArray(total.sums[key], num_times)]]

\* CactusField.field_time_average(ti_start, ti_end)
field_time_average(self, fs, ti_start, ti_end) ==
    LET window == PySlice(self.times, ti_start, ti_end)
        num_times == Len(window)
        total == SumFields(self, fs, window, 1, [err |-> "none"])
    IN  IF total.err # "none" THEN [err |-> total.err]
        ELSE IF num_times = 0 THEN [err |-> "UnboundLocalError"]   \* U/num_times
        ELSE [err |-> "none",
              data |-> [key \in DOMAIN total.sums \cup {"t"} |->
                          IF key = "t" THEN window
                          ELSE IF key \in {"X", "Y", "Z"} THEN total.sums[key]
                          ELSE DivArray(total.sums[key], num_times)]]

\* the nearest grid indices (zi, yi, xi), from 0, of the point p = <<xp, yp, zp>>
NearestIndex(g, p) ==
    <<ArgMinAbs(Unique3(g.grid_data["Z"]), p[3]),
      ArgMinAbs(Unique3(g.grid_data["Y"]), p[2]),
      ArgMinAbs(Unique3(g.grid_data["X"]), p[1])>>

\* A[coords] for coords = (k, j, i) from 0
InRange3(A, c) ==
    /\ c[1] + 1 \in DOMAIN A
    /\ c[2] + 1 \in DOMAIN A[c[1] + 1]
    /\ c[3] + 1 \in DOMAIN A[c[1] + 1][c[2] + 1]
At3(A, c) == A[c[1] + 1][c[2] + 1][c[3] + 1]

\* the loop of pointdata_time_series over the files of window[ti..]: the
\* columns u[:, ti], ... of the result, one per timestep
RECURSIVE PointColumns(_, _, _, _, _, _)
PointColumns(self, fs, window, kji_nearest, ti, acc) ==
    IF ti > Len(window) THEN [err |-> "none", cols |-> acc]
    ELSE LET g == fielddata_from_df(get_df_inst(self, fs, window[ti]))
         IN  IF g.err # "none" THEN [err |-> g.err]
             ELSE IF Len(kji_nearest) = 0
             THEN PointColumns(self, fs, window, kji_nearest, ti + 1, Append(acc, <<>>))
             ELSE IF ~InRange3(g.grid_data["U"], kji_nearest[1])
             THEN [err |-> "IndexError"]
             ELSE IF \E key \in FsKeys : key \notin DOMAIN g.grid_data
             THEN [err |-> "KeyError"]      \* grid_data['Ufs']
             ELSE IF \E pi \in DOMAIN kji_nearest :
                        ~InRange3(g.grid_data["U"], kji_nearest[pi])
             THEN [err |-> "IndexError"]
             ELSE PointColumns(self, fs, window, kji_nearest, ti + 1,
                    Append(acc, [pi \in DOMAIN kji_nearest |->
                                   [key \in DOMAIN g.grid_data \ {"X", "Y", "Z"} |->
                                       At3(g.grid_data[key], kji_nearest[pi])]]))

\* CactusField.pointdata_time_series(p_list, ti_start, ti_end).  kji_nearest is
\* a local of the method, kept in the result so that it can be inspected.
pointdata_time_series(self, fs, p_list, ti_start, ti_end) ==
    LET g0 == fielddata_from_df(get_df_inst(self, fs, self.times[1]))
        kji_nearest == [pi \in DOMAIN p_list |-> NearestIndex(g0, p_list[pi])]
        window == PySlice(self.times, ti_start, ti_end)
        cols == PointColumns(self, fs, window, kji_nearest, 1, <<>>)
        column(key) == [pi \in DOMAIN p_list |-> [ti \in DOMAIN window |->
                           cols.cols[ti][pi][key]]]
    IN  IF g0.err # "none" THEN [err |-> g0.err]
        ELSE IF cols.err # "none" THEN [err |-> cols.err, kji_nearest |-> kji_nearest]
        ELSE [err |-> "none",
              kji_nearest |-> kji_nearest,
              data |-> [t |-> window,
                        u |-> column("U"), v |-> column("V"), w |-> column("W"),
                        ufs |-> column("Ufs"), vfs |-> column("Vfs"),
                        wfs |-> column("Wfs")]]

\* ------------------------------------------------------------------------
\* CactusWakeGrid
\* ------------------------------------------------------------------------
\* the distinct values of a column in the order of their first appearance
\* (pandas unique)
RECURSIVE UniqueInOrder(_)
UniqueInOrder(seq) ==
    IF seq = <<>> THEN <<>>
    ELSE LET front == UniqueInOrder(SubSeq(seq, 1, Len(seq) - 1))
             last == seq[Len(seq)]
         IN  IF last \in Range(front) THEN front ELSE Append(front, last)

\* np.reshape(flat, [nt, nz, ny, nx])
Reshape4(flat, nt, nz, ny, nx) ==
    IF nt * nz * ny * nx # Len(flat)
    THEN [err |-> "ValueError"]
    ELSE [err |-> "none",
          a |-> [t \in 1..nt |->
                   Reshape3(SubSeq(flat, (t - 1) * nz * ny * nx + 1, t * nz * ny * nx),
                            nz, ny, nx).a]]

\* CactusWakeGrid.__init__(df)
CactusWakeGrid_init(d) ==
    IF Len(d.rows) = 0
    THEN [err |-> "IndexError"]       \* X[0,:,:,:] of an array without a time
    ELSE
    LET x == Column(d, x_col_name)
        y == Column(d, y_col_name)
        z == Column(d, z_col_name)
        times == UniqueInOrder(Column(d, time_col_name))
        nt == Len(times)
        nx == Cardinality(Range(x))
        ny == Cardinality(Range(y))
        nz == Cardinality(Range(z))
        R(c) == Reshape4(Column(d, c), nt, nz, ny, nx)
    IN  IF R(x_col_name).err # "none"
        THEN [err |-> "ValueError"]
        ELSE [err |-> "none",
              times |-> times, num_times |-> nt,
              nt |-> nt, nx |-> nx, ny |-> ny, nz |-> nz,
              dx |-> Spacing(SetMin(Range(x)), SetMax(Range(x)), nx),
              dy |-> Spacing(SetMin(Range(y)), SetMax(Range(y)), ny),
              dz |-> Spacing(SetMin(Range(z)), SetMax(Range(z)), nz),
              X |-> R(x_col_name).a[1],
              Y |-> R(y_col_name).a[1],
              Z |-> R(z_col_name).a[1],
              U |-> [ndim |-> 4, a |-> R(u_col_name).a],
              V |-> [ndim |-> 4, a |-> R(v_col_name).a],
              W |-> [ndim |-> 4, a |-> R(w_col_name).a]]

\* the length of F along the axis that `axis` indexes (F of 4 dimensions)
AxisLen(F, axis) ==
    CASE axis = "x" -> Len(F.a[1][1][1])
      [] axis = "y" -> Len(F.a[1][1])
      [] axis = "z" -> Len(F.a[1])

\* an index i on an axis of length n, as numpy takes it: from 0, or, negative,
\* from the end; -1 when out of bounds
NumpyIndex(i, n) ==
    IF 0 <= i /\ i < n THEN i
    ELSE IF -n <= i /\ i < 0 THEN i + n
    ELSE -1

\* F[:,:,:,i], F[:,:,i,:], F[:,i,:,:]
TakePlane(F, axis, i) ==
    CASE axis = "x" ->
           [t \in DOMAIN F.a |-> [k \in DOMAIN F.a[t] |-> [j \in DOMAIN F.a[t][k] |->
               F.a[t][k][j][i + 1]]]]
      [] axis = "y" ->
           [t \in DOMAIN F.a |-> [k \in DOMAIN F.a[t] |-> [ii \in DOMAIN F.a[t][k][i + 1] |->
               F.a[t][k][i + 1][ii]]]]
      [] axis = "z" ->
           [t \in DOMAIN F.a |-> F.a[t][i + 1]]

\* slice_reshape that hands back an array of three dimensions as it is
slice_reshape_lenient(axis, F, i, nt, n1, n2) ==
    IF axis \notin {"x", "y", "z"} THEN [err |-> "none", F |-> F]
    ELSE IF F.ndim # 4 THEN [err |-> "none", F |-> F]
    ELSE IF NumpyIndex(i, AxisLen(F, axis)) < 0 THEN [err |-> "IndexError"]
    ELSE LET r == Reshape3(Ravel3(TakePlane(F, axis, NumpyIndex(i, AxisLen(F, axis)))),
                           nt, n2, n1)
         IN  IF r.err # "none" THEN [err |-> r.err]
             ELSE [err |-> "none", F |-> [ndim |-> 3, a |-> r.a]]

\* slice_reshape with the two plane dimensions exchanged in the reshape
slice_reshape_swapped(axis, F, i, nt, n1, n2) ==
    IF axis \notin {"x", "y", "z"} THEN [err |-> "none", F |-> F]
    ELSE IF F.ndim # 4 THEN [err |-> "IndexError"]
    ELSE IF NumpyIndex(i, AxisLen(F, axis)) < 0 THEN [err |-> "IndexError"]
    ELSE LET r == Reshape3(Ravel3(TakePlane(F, axis, NumpyIndex(i, AxisLen(F, axis)))),
                           nt, n1, n2)
         IN  IF r.err # "none" THEN [err |-> r.err]
             ELSE [err |-> "none", F |-> [ndim |-> 3, a |-> r.a]]

\* slice_reshape(axis, F, i, nt, n1, n2)
slice_reshape(axis, F, i, nt, n1, n2) ==
    IF axis \notin {"x", "y", "z"} THEN [err |-> "none", F |-> F]
    ELSE IF F.ndim # 4 THEN [err |-> "IndexError"]      \* too many indices
    ELSE IF NumpyIndex(i, AxisLen(F, axis)) < 0 THEN [err |-> "IndexError"]
    ELSE LET r == Reshape3(Ravel3(TakePlane(F, axis, NumpyIndex(i, AxisLen(F, axis)))),
                           nt, n2, n1)
         IN  IF r.err # "none" THEN [err |-> r.err]
             ELSE [err |-> "none", F |-> [ndim |-> 3, a |-> r.a]]

\* the object after the slices were stored whatever the flag
StoreSlices_always(self, U, V, W, inplace) ==
    [self EXCEPT !.U = U, !.V = V, !.W = W]

\* if inplace==True: self.U = U; self.V = V; self.W = W
StoreSlices(self, U, V, W, inplace) ==
    IF inplace THEN [self EXCEPT !.U = U, !.V = V, !.W = W] ELSE self

\* CactusWakeGrid.slice_in_space(axis, i, inplace): the outcome and the
\* object afterwards
slice_in_space(self, axis, i, inplace) ==
    LET nt == self.nt
        n1 == IF axis = "x" THEN self.ny ELSE self.nx
        n2 == IF axis = "z" THEN self.ny ELSE self.nz
        U == slice_reshape(axis, self.U, i, nt, n1, n2)
        V == slice_reshape(axis, self.V, i, nt, n1, n2)
        W == slice_reshape(axis, self.W, i, nt, n1, n2)
    IN  IF axis \notin {"x", "y", "z"}
        THEN [out |-> [err |-> "UnboundLocalError"], self |-> self]   \* n1 not set
        ELSE IF U.err # "none" THEN [out |-> [err |-> U.err], self |-> self]
        ELSE IF V.err # "none" THEN [out |-> [err |-> V.err], self |-> self]
        ELSE IF W.err # "none" THEN [out |-> [err |-> W.err], self |-> self]
        ELSE [out |-> [err |-> "none", U |-> U.F, V |-> V.F, W |-> W.F],
              self |-> StoreSlices(self, U.F, V.F, W.F, inplace)]

\* ------------------------------------------------------------------------
\* Time statistics (pyCactusWake module functions)
\* ------------------------------------------------------------------------
RECURSIVE SeqSum(_)
SeqSum(seq) == IF seq = <<>> THEN 0 ELSE Head(seq) + SeqSum(Tail(seq))

\* find_nearest that takes the last of equally near entries
find_nearest_last(array, value) ==
    LET dist(i) == Abs(array[i] - value)
        index == CHOOSE i \in DOMAIN array :
                    /\ \A o \in DOMAIN array : dist(i) <= dist(o)
                    /\ \A o \in DOMAIN array : dist(o) = dist(i) => o <= i
    IN  [nearest_value |-> array[index], index |-> index - 1]

\* find_nearest(array, value): the first entry nearest to value and its index
\* (from 0)
find_nearest(array, value) ==
    LET dist(i) == Abs(array[i] - value)
        index == CHOOSE i \in DOMAIN array :
                    /\ \A o \in DOMAIN array : dist(i) <= dist(o)
                    /\ \A o \in DOMAIN array : dist(o) = dist(i) => i <= o
    IN  [nearest_value |-> array[index], index |-> index - 1]

\* np.mean, np.std, np.min, np.max along the time axis of the samples w.  The
\* standard deviation is the square root of the fraction kept in stdf.
TimeStats(w) ==
    LET n == Len(w)
        sq == [i \in DOMAIN w |-> w[i] * w[i]]
    IN  [mean |-> Div(SeqSum(w), n),
         stdf |-> Div(n * SeqSum(sq) - SeqSum(w) * SeqSum(w), n * n),
         minf |-> SetMin(Range(w)),
         maxf |-> SetMax(Range(w))]

\* field_time_stats(field, times, t_start, t_end), with the warnings it emits
field_time_stats(field, times, t_start, t_end) ==
    LET index_start == IF t_start < times[1] THEN 0
                       ELSE find_nearest(times, t_start).index
        index_end == IF t_end > times[Len(times)] THEN -1
                     ELSE IF t_end = -1 THEN -1
                     ELSE find_nearest(times, t_end).index
        warnings == (IF t_start < times[1] THEN {"start outside of the range"} ELSE {})
                    \cup (IF t_end > times[Len(times)] THEN {"end outside of the range"}
                          ELSE {})
        w == PySlice(field, index_start, index_end)
    IN  IF w = <<>>
        THEN [err |-> "ValueError", warnings |-> warnings]   \* np.min of no sample
        ELSE [err |-> "none", warnings |-> warnings, stats |-> TimeStats(w)]

\* fractions <<p, q>>, q > 0
FracAdd(a, b) == Div(a[1] * b[2] + b[1] * a[2], a[2] * b[2])
FracHalf(a) == Div(a[1], 2 * a[2])

\* np.power(f, 3)
FracPower3(f) == <<f[1] * f[1] * f[1], f[2] * f[2] * f[2]>>

\* np.power(f, 2)
FracPower2(f) == <<f[1] * f[1], f[2] * f[2]>>

\* the time series of element p of the field F (time is the first index)
PointSeries(F, p) == [t \in DOMAIN F |-> F[t][p]]

\* np.mean(seq, axis=0) of fractions of one denominator
MeanFrac(seq) ==
    Div(SeqSum([t \in DOMAIN seq |-> seq[t][1]]), seq[1][2] * Len(seq))

\* np.mean(np.power(F_mean - F, 2), axis=0) at element p, F_mean being the
\* mean of the window at that element: the fluctuation is taken at every
\* sample of F
MeanSquareFluc(F_mean, F, p) ==
    MeanFrac([t \in DOMAIN F |->
                FracPower2(<<F_mean[1] - F[t][p] * F_mean[2], F_mean[2]>>)])

\* calc_tke that averages the squared fluctuations over the window only
calc_tke_windowed(U, V, W, times, t_start, t_end) ==
    LET stats(F, p) == field_time_stats(PointSeries(F, p), times, t_start, t_end)
        index_start == IF t_start < times[1] THEN 0
                       ELSE find_nearest(times, t_start).index
        index_end == IF t_end > times[Len(times)] THEN -1
                     ELSE IF t_end = -1 THEN -1
                     ELSE find_nearest(times, t_end).index
        ms(F, p) == MeanSquareFluc(stats(F, p).stats.mean,
                                   PySlice(F, index_start, index_end), p)
    IN  IF stats(U, 1).err # "none" THEN [err |-> stats(U, 1).err]
        ELSE [err |-> "none",
              tke |-> [p \in DOMAIN U[1] |->
                         FracHalf(FracAdd(FracAdd(ms(U, p), ms(V, p)), ms(W, p)))]]

\* calc_tke(U, V, W, times, t_start, t_end); the fields are 1-d arrays in time
calc_tke(U, V, W, times, t_start, t_end) ==
    LET stats(F, p) == field_time_stats(PointSeries(F, p), times, t_start, t_end)
        ms(F, p) == MeanSquareFluc(stats(F, p).stats.mean, F, p)
    IN  IF stats(U, 1).err # "none" THEN [err |-> stats(U, 1).err]
        ELSE [err |-> "none",
              tke |-> [p \in DOMAIN U[1] |->
                         FracHalf(FracAdd(FracAdd(ms(U, p), ms(V, p)), ms(W, p)))]]

\* ------------------------------------------------------------------------
\* CactusProbes
\* ------------------------------------------------------------------------
\* CactusProbes.__init__(): two empty dictionaries
CactusProbes_init == [probe_locations |-> <<>>, probe_filenames |-> <<>>]

\* x, y, z before the first assignment to them
Unbound == <<>>

\* d[key] = value
SetItem(d, key, value) == (key :> value) @@ d

\* the if/elif of read_probe_files: x, y, z from a line of 3 or 4 fields,
\* else x, y, z as they were
Unpack(splitline, xyz) ==
    IF Len(splitline) = 3 \/ Len(splitline) = 4
    THEN SubSeq(splitline, 1, 3)
    ELSE xyz

\* the loop of read_probe_files over sorted(probe_filenames)[k..] (k from 1;
\* the probe id is k - 1), xyz being the locals x, y, z.  A file is its path
\* and splitline, the fields of its second line, each field the number its
\* text denotes.
RECURSIVE ReadProbeLoop(_, _, _, _)
ReadProbeLoop(self, sorted, k, xyz) ==
    IF k > Len(sorted) THEN [err |-> "none", self |-> self]
    ELSE LET now == Unpack(sorted[k].splitline, xyz)
         IN  IF now = Unbound
             THEN [err |-> "UnboundLocalError", self |-> self]     \* float(x)
             ELSE ReadProbeLoop(
                    [probe_locations |-> SetItem(self.probe_locations, k - 1, now),
                     probe_filenames |-> SetItem(self.probe_filenames, k - 1,
                                                 sorted[k].path)],
                    sorted, k + 1, now)

\* CactusProbes.read_probe_files(run_directory), found being the probe files
\* under run_directory in sorted path order: the outcome and the object
\* afterwards
read_probe_files(self, found) == ReadProbeLoop(self, found, 1, Unbound)

\* ------------------------------------------------------------------------
\* Input tables
\* ------------------------------------------------------------------------
\* sample coordinates and velocities of the free-form tables
CoordVals == {0, 1}
VelVals == {<<1, 1, 1>>, <<2^Float32Bits + 1, 3, -(2^Float32Bits + 3)>>}

FreeRows ==
    {[c \in BaseCols |->
        CASE c = time_col_name -> 0
          [] c = x_col_name -> x
          [] c = y_col_name -> y
          [] c = z_col_name -> z
          [] c = u_col_name -> vel[1]
          [] c = v_col_name -> vel[2]
          [] c = w_col_name -> vel[3]] :
      x \in CoordVals, y \in CoordVals, z \in CoordVals, vel \in VelVals}

RECURSIVE SeqsUpTo(_, _)
SeqsUpTo(S, n) ==
    IF n = 0 THEN {<<>>}
    ELSE LET shorter == SeqsUpTo(S, n - 1)
         IN  shorter \cup {Append(s, e) : s \in {q \in shorter : Len(q) = n - 1}, e \in S}

\* any table of at most MaxRows rows, in any order, without freestream columns
FreeTables == {[columns |-> BaseCols, rows |-> rs] : rs \in SeqsUpTo(FreeRows, MaxRows)}

\* coordinate axes: n distinct values from start in steps of step
Axis(start, step, n) == [i \in 1..n |-> start + step * (i - 1)]
AxisStarts == {0, 2^Float32Bits}
AxisSteps == {1, -1}
Axes == {Axis(s, st, n) : s \in AxisStarts, st \in AxisSteps, n \in 1..MaxAxis}

\* velocity patterns <<base, stride>>: row r (from 0) carries
\* U = base + stride*r, V = base + 2*stride*r, W = base + 3*stride*r
VelPatterns == {<<1, 0>>, <<1, 1>>, <<2^Float32Bits, 1>>}

\* one timestep's table on the grid xs x ys x zs, rows ordered x fastest, then
\* y, then z, as the solver writes them
GridTable(xs, ys, zs, t, pat, hasfs) ==
    LET nx == Len(xs)
        ny == Len(ys)
        nz == Len(zs)
        cs == IF hasfs THEN BaseCols \cup FsCols ELSE BaseCols
        row(r) == [c \in cs |->
            CASE c = time_col_name -> t
              [] c = x_col_name -> xs[(r % nx) + 1]
              [] c = y_col_name -> ys[((r \div nx) % ny) + 1]
              [] c = z_col_name -> zs[(r \div (nx * ny)) + 1]
              [] c = u_col_name -> pat[1] + pat[2] * r
              [] c = v_col_name -> pat[1] + 2 * pat[2] * r
              [] c = w_col_name -> pat[1] + 3 * pat[2] * r
              [] c = ufs_col_name -> pat[1]
              [] c = vfs_col_name -> 0
              [] c = wfs_col_name -> 0]
    IN  [columns |-> cs, rows |-> [r \in 1..(nx * ny * nz) |-> row(r - 1)]]

\* a table that lost its last row, or got it twice
Damage(d, how) ==
    CASE how = "none" -> d
      [] how = "drop" -> [d EXCEPT !.rows = SubSeq(d.rows, 1, Len(d.rows) - 1)]
      [] how = "dup" -> [d EXCEPT !.rows = Append(d.rows, d.rows[Len(d.rows)])]

GridTables ==
    {Damage(GridTable(xs, ys, zs, 0, pat, hasfs), how) :
        xs \in Axes, ys \in Axes, zs \in Axes, pat \in VelPatterns,
        hasfs \in BOOLEAN, how \in {"none", "drop", "dup"}}

NotCalled == [err |-> "not called"]

\* ------------------------------------------------------------------------
\* Specification: reconstruction of one table
\* ------------------------------------------------------------------------
InitRecon ==
    /\ df \in FreeTables \cup GridTables
    /\ grid = NotCalled
    /\ files = <<>>
    /\ grd = <<>>
    /\ cf = NotCalled
    /\ wake = NotCalled
    /\ series = <<>>
    /\ probes = NotCalled
    /\ ret = NotCalled

\* grid_data, grid_dims = fielddata_from_df(df)
FieldDataFromDf ==
    /\ grid = NotCalled
    /\ grid' = fielddata_from_df(df)
    /\ UNCHANGED <<df, files, grd, cf, wake, series, probes, ret>>

\* wake = CactusWakeGrid(df), of the same table
WakeFromDf ==
    /\ wake = NotCalled
    /\ wake' = CactusWakeGrid_init(df)
    /\ UNCHANGED <<df, grid, files, grd, cf, series, probes, ret>>

NextRecon == FieldDataFromDf \/ WakeFromDf

SpecRecon == InitRecon /\ [][NextRecon]_vars

\* ------------------------------------------------------------------------
\* Specification: a CactusField over a set of files
\* ------------------------------------------------------------------------
\* the header line with the column names `names`, split at its commas: a
\* blank after each comma if padded, the line terminator on the last field
HeaderLine(names, padded) ==
    [c \in DOMAIN names |->
        (IF padded /\ c > 1 THEN " " ELSE "")
        \o names[c]
        \o (IF c = Len(names) THEN "\n" ELSE "")]

\* the header line of a file, as written
Header(hasfs) ==
    HeaderLine(<<time_col_name, x_col_name, y_col_name, z_col_name,
                 u_col_name, v_col_name, w_col_name>>
               \o (IF hasfs THEN <<ufs_col_name, vfs_col_name, wfs_col_name>> ELSE <<>>),
               FALSE)

TimeVals == {1, 2, 3}
SmallVel == <<1, 1>>
LargeVel == <<2^Float32Bits, 1>>
AscendingAxes == {Axis(0, 1, n) : n \in 1..MaxAxis}
\* x axes of every kind; y and z axes ascending and of one length
RunGrids ==
    {<<xs, ys, ys>> : xs \in Axes, ys \in AscendingAxes}

\* arguments tried
AverageStarts == {-5, -2, 0, 1}
AverageEnds == {-1, 1, 3}
SeriesStarts == {0}
SeriesEnds == {-1, 2}

\* points asked for on the grid g: its nodes, and two points outside its box
PointsOf(g) ==
    {<<xp, yp, zp>> : xp \in Range(g[1]), yp \in Range(g[2]), zp \in Range(g[3])}
    \cup {<<SetMin(Range(g[1])) - 2, g[2][1], g[3][1]>>,
          <<SetMax(Range(g[1])) + 2, SetMax(Range(g[2])) + 2, g[3][Len(g[3])]>>}

PointLists(g) ==
    {<<p>> : p \in PointsOf(g)}
    \cup {<<<<g[1][1], g[2][1], g[3][1]>>,
            <<g[1][Len(g[1])], g[2][Len(g[2])], g[3][Len(g[3])]>>>>}

\* The files of a run: n files on one grid, with or without the freestream
\* columns, their times in any order (two files may carry one time), file
\* `large` (if any) carrying velocities beyond the float32 integers.
Init ==
    /\ df = <<>>
    /\ grid = NotCalled
    /\ grd \in RunGrids
    /\ \E n \in 1..MaxFiles, hasfs \in BOOLEAN :
         \E times \in [1..n -> TimeVals], large \in 0..n :
            files = [f \in 1..n |->
                       [header |-> Header(hasfs),
                        df |-> GridTable(grd[1], grd[2], grd[3], times[f],
                                         IF f = large THEN LargeVel ELSE SmallVel,
                                         hasfs)]]
    /\ cf = NotCalled
    /\ wake = NotCalled
    /\ series = <<>>
    /\ probes = NotCalled
    /\ ret = NotCalled

\* cf = CactusField(filenames)
Construct ==
    /\ cf = NotCalled
    /\ cf' = CactusField_init(files)
    /\ UNCHANGED <<df, grid, files, grd, wake, series, probes, ret>>

\* The methods below leave the object as it is, so a later call behaves as a
\* first one: a run of the model makes one call.
Callable == cf # NotCalled /\ cf.err = "none" /\ ret = NotCalled

\* cf.field_time_average(ti_start, ti_end)
FieldTimeAverage ==
    /\ Callable
    /\ \E ti_start \in AverageStarts, ti_end \in AverageEnds :
         ret' = [op |-> "field_time_average",
                 ti_start |-> ti_start, ti_end |-> ti_end,
                 out |-> field_time_average(cf, files, ti_start, ti_end)]
    /\ UNCHANGED <<df, grid, files, grd, cf, wake, series, probes>>

\* cf.pointdata_time_series(p_list, ti_start, ti_end)
PointdataTimeSeries ==
    /\ Callable
    /\ \E p_list \in PointLists(grd), ti_start \in SeriesStarts, ti_end \in SeriesEnds :
         ret' = [op |-> "pointdata_time_series",
                 p_list |-> p_list, ti_start |-> ti_start, ti_end |-> ti_end,
                 out |-> pointdata_time_series(cf, files, p_list, ti_start, ti_end)]
    /\ UNCHANGED <<df, grid, files, grd, cf, wake, series, probes>>

Next == Construct \/ FieldTimeAverage \/ PointdataTimeSeries

Spec == Init /\ [][Next]_vars

\* ------------------------------------------------------------------------
\* Specification: the time index of a CactusField
\* ------------------------------------------------------------------------
\* a column that is not the time column
other_time_col_name == "Time (s)"

\* layouts of the header line: the time column first (as the solver writes
\* it), second, last, second after a blank, or under another name
HeaderKinds == {"first", "second", "last", "padded", "absent"}

ColumnsOf(kind) ==
    CASE kind = "first" ->
           <<time_col_name, x_col_name, y_col_name, z_col_name,
             u_col_name, v_col_name, w_col_name>>
      [] kind \in {"second", "padded"} ->
           <<x_col_name, time_col_name, y_col_name, z_col_name,
             u_col_name, v_col_name, w_col_name>>
      [] kind = "last" ->
           <<x_col_name, y_col_name, z_col_name,
             u_col_name, v_col_name, w_col_name, time_col_name>>
      [] kind = "absent" ->
           <<other_time_col_name, x_col_name, y_col_name, z_col_name,
             u_col_name, v_col_name, w_col_name>>

\* a file of one node at time t with the header layout kind, with its data
\* row or with the header line only; df is the table load_data reads from it
IndexFile(kind, t, hasrow) ==
    LET names == ColumnsOf(kind)
        row == [c \in Range(names) |->
                  IF c \in {time_col_name, other_time_col_name} THEN t
                  ELSE IF c \in {x_col_name, y_col_name, z_col_name} THEN 0
                  ELSE 1]
    IN  [header |-> HeaderLine(names, kind = "padded"),
         df |-> [columns |-> Range(names),
                 rows |-> IF hasrow THEN <<row>> ELSE <<>>]]

\* n files with their times in any order; file `odd` (if any) has a header
\* layout of its own or lacks its data row
InitIndex ==
    /\ df = <<>>
    /\ grid = NotCalled
    /\ grd = <<<<0>>, <<0>>, <<0>>>>
    /\ \E n \in 1..MaxFiles :
         \E times \in [1..n -> TimeVals], odd \in 0..n,
            kind \in HeaderKinds, hasrow \in BOOLEAN :
            files = [f \in 1..n |->
                       IF f = odd THEN IndexFile(kind, times[f], hasrow)
                       ELSE IndexFile("first", times[f], TRUE)]
    /\ cf = NotCalled
    /\ wake = NotCalled
    /\ series = <<>>
    /\ probes = NotCalled
    /\ ret = NotCalled

\* cf.get_df_inst(time=time), for a time of the list or any other
GetDfInst ==
    /\ cf # NotCalled
    /\ cf.err = "none"
    /\ \E time \in TimeVals :
         ret' = [op |-> "get_df_inst", time |-> time,
                 out |-> IF time \in DOMAIN cf.fdict
                         THEN [err |-> "none", fname |-> cf.fdict[time],
                               df_inst |-> get_df_inst(cf, files, time)]
                         ELSE [err |-> "KeyError"]]     \* self.fdict[time]
    /\ UNCHANGED <<df, grid, files, grd, cf, wake, series, probes>>

NextIndex == Construct \/ GetDfInst

SpecIndex == InitIndex /\ [][NextIndex]_vars

\* ------------------------------------------------------------------------
\* Specification: a CactusWakeGrid over one table of several times
\* ------------------------------------------------------------------------
\* the table of the times ts on the grid xs x ys x zs: one block of rows per
\* time, every row with velocities of its own
WakeTable(xs, ys, zs, ts) ==
    LET n == Len(xs) * Len(ys) * Len(zs)
    IN  [columns |-> BaseCols,
         rows |-> Concat([ti \in DOMAIN ts |->
                    GridTable(xs, ys, zs, ts[ti], <<1 + (ti - 1) * n, 1>>, FALSE).rows])]

WakeTables ==
    {Damage(WakeTable(xs, ys, zs, Axis(1, 1, nt)), how) :
        xs \in AscendingAxes, ys \in AscendingAxes, zs \in AscendingAxes,
        nt \in 1..MaxAxis, how \in {"none", "drop", "dup"}}

SliceAxes == {"x", "y", "z", "t"}
SliceIndices == (-(MaxAxis + 1))..MaxAxis

InitWake ==
    /\ df \in WakeTables
    /\ grid = NotCalled
    /\ files = <<>>
    /\ grd = <<>>
    /\ cf = NotCalled
    /\ wake = NotCalled
    /\ series = <<>>
    /\ probes = NotCalled
    /\ ret = NotCalled

\* wake = CactusWakeGrid(df)
WakeConstruct ==
    /\ wake = NotCalled
    /\ wake' = CactusWakeGrid_init(df)
    /\ UNCHANGED <<df, grid, files, grd, cf, series, probes, ret>>

\* wake.slice_in_space(axis, i, inplace); ret keeps the object as it was
\* when called
SliceInSpace ==
    /\ wake # NotCalled
    /\ wake.err = "none"
    /\ \E axis \in SliceAxes, i \in SliceIndices, inplace \in BOOLEAN :
         LET r == slice_in_space(wake, axis, i, inplace)
         IN  /\ wake' = r.self
             /\ ret' = [op |-> "slice_in_space",
                         axis |-> axis, i |-> i, inplace |-> inplace,
                         pre |-> wake, out |-> r.out]
    /\ UNCHANGED <<df, grid, files, grd, cf, series, probes>>

NextWake == WakeConstruct \/ SliceInSpace

SpecWake == InitWake /\ [][NextWake]_vars

\* ------------------------------------------------------------------------
\* Specification: time statistics of a sampled field
\* ------------------------------------------------------------------------
MaxSamples == 3

\* sample times (1 and 4 lie midway between two of them) and field values
StatTimes == {0, 2, 3, 5}
FieldVals == {0, 1, 3}
\* requested window bounds; -1 as t_end asks for "to the end"
StartTimes == {-2, 0, 1, 2, 4, 6}
EndTimes == {-1, 0, 1, 3, 4, 6}

InitStats ==
    /\ df = <<>>
    /\ grid = NotCalled
    /\ files = <<>>
    /\ grd = <<>>
    /\ cf = NotCalled
    /\ wake = NotCalled
    /\ \E T \in SUBSET StatTimes :
         /\ T # {}
         /\ Cardinality(T) <= MaxSamples
         /\ \E field \in [1..Cardinality(T) -> FieldVals] :
              series = [times |-> SortedSeq(T), field |-> field]
    /\ probes = NotCalled
    /\ ret = NotCalled

\* field_time_stats(series.field, series.times, t_start, t_end)
FieldTimeStats ==
    /\ \E t_start \in StartTimes, t_end \in EndTimes :
         ret' = [op |-> "field_time_stats", t_start |-> t_start, t_end |-> t_end,
                 out |-> field_time_stats(series.field, series.times, t_start, t_end)]
    /\ UNCHANGED <<df, grid, files, grd, cf, wake, series, probes>>

NextStats == FieldTimeStats

SpecStats == InitStats /\ [][NextStats]_vars

\* ------------------------------------------------------------------------
\* Specification: turbulent kinetic energy of a sampled velocity field
\* ------------------------------------------------------------------------
\* values of a velocity component at the first of the two points of the
\* field; the second point carries 1 minus that value
TkeVals == {-1, 0, 2}
TkeField(a) == [t \in DOMAIN a |-> <<a[t], 1 - a[t]>>]

\* U takes any values, V stays near zero, W is at rest or mirrors U
InitTke ==
    /\ df = <<>>
    /\ grid = NotCalled
    /\ files = <<>>
    /\ grd = <<>>
    /\ cf = NotCalled
    /\ wake = NotCalled
    /\ \E T \in SUBSET StatTimes :
         /\ T # {}
         /\ Cardinality(T) <= MaxSamples
         /\ \E u \in [1..Cardinality(T) -> TkeVals],
               v \in [1..Cardinality(T) -> {0, 1}], mirror \in BOOLEAN :
              series = [times |-> SortedSeq(T),
                        U |-> TkeField(u),
                        V |-> TkeField(v),
                        W |-> TkeField([t \in DOMAIN u |-> IF mirror THEN -u[t] ELSE 0])]
    /\ probes = NotCalled
    /\ ret = NotCalled

\* calc_tke(series.U, series.V, series.W, series.times, t_start, t_end).  The
\* function keeps no state, so a later call behaves as a first one: a run of
\* the model makes one call.
CalcTke ==
    /\ ret = NotCalled
    /\ \E t_start \in StartTimes, t_end \in EndTimes :
         ret' = [op |-> "calc_tke", t_start |-> t_start, t_end |-> t_end,
                 out |-> calc_tke(series.U, series.V, series.W, series.times,
                                  t_start, t_end)]
    /\ UNCHANGED <<df, grid, files, grd, cf, wake, series, probes>>

NextTke == CalcTke

SpecTke == InitTke /\ [][NextTke]_vars

\* ------------------------------------------------------------------------
\* Specification: a CactusProbes object scanning run directories
\* ------------------------------------------------------------------------
MaxScans == 2

\* paths of probe files; a larger number sorts later
ProbePaths == 1..MaxFiles

\* second lines: x, y, z; x, y, z and a trailing field; two fields; five
ProbeLines == {"xyz", "xyzt", "xy", "xyzuv"}

\* the probe file at path p, its probe at (10 p, 10 p + 1, 10 p + 2)
ProbeFile(p, line) ==
    [path |-> p,
     splitline |->
        CASE line = "xyz" -> <<10 * p, 10 * p + 1, 10 * p + 2>>
          [] line = "xyzt" -> <<10 * p, 10 * p + 1, 10 * p + 2, 0>>
          [] line = "xy" -> <<10 * p, 10 * p + 1>>
          [] line = "xyzuv" -> <<10 * p + 5, 10 * p + 6, 10 * p + 7, 0, 0>>]

\* the probe files found under a run directory, in sorted path order
ProbeDirs ==
    {[k \in 1..Cardinality(P) |-> ProbeFile(SortedSeq(P)[k], lines[SortedSeq(P)[k]])] :
        P \in SUBSET ProbePaths, lines \in [ProbePaths -> ProbeLines]}

InitProbes ==
    /\ df = <<>>
    /\ grid = NotCalled
    /\ files = <<>>
    /\ grd = <<>>
    /\ cf = NotCalled
    /\ wake = NotCalled
    /\ series = <<>>
    /\ probes = CactusProbes_init
    /\ ret = [op |-> "CactusProbes", scan |-> 0]

\* probes.read_probe_files(run_directory); files keeps what the directory
\* held at this scan
ReadProbeFiles ==
    /\ ret.scan < MaxScans
    /\ \E found \in ProbeDirs :
         LET r == read_probe_files(probes, found)
         IN  /\ files' = found
             /\ probes' = r.self
             /\ ret' = [op |-> "read_probe_files", scan |-> ret.scan + 1,
                         pre |-> probes, out |-> [err |-> r.err]]
    /\ UNCHANGED <<df, grid, grd, cf, wake, series>>

NextProbes == ReadProbeFiles

SpecProbes == InitProbes /\ [][NextProbes]_vars

\* ------------------------------------------------------------------------
\* Properties of the reconstruction
\* ------------------------------------------------------------------------
\* counts of distinct x, y, z values of the table df
DistinctX == Cardinality({df.rows[r][x_col_name] : r \in DOMAIN df.rows})
DistinctY == Cardinality({df.rows[r][y_col_name] : r \in DOMAIN df.rows})
DistinctZ == Cardinality({df.rows[r][z_col_name] : r \in DOMAIN df.rows})

\* the rows of df run over a grid x fastest, then y, then z
OrderedRows ==
    LET n == Len(df.rows)
        nx == DistinctX
        ny == DistinctY
        nz == DistinctZ
        v(r, c) == df.rows[r + 1][c]
    IN  /\ n > 0
        /\ n = nx * ny * nz
        /\ \A r, q \in 0..(n - 1) :
             /\ (v(r, x_col_name) = v(q, x_col_name)) <=> (r % nx = q % nx)
             /\ (v(r, y_col_name) = v(q, y_col_name))
                    <=> ((r \div nx) % ny = (q \div nx) % ny)
             /\ (v(r, z_col_name) = v(q, z_col_name))
                    <=> (r \div (nx * ny) = q \div (nx * ny))

\* the shape of a 3-d array is [nz, ny, nx]
HasShape(A, nz, ny, nx) ==
    /\ Len(A) = nz
    /\ \A k \in 1..nz : /\ Len(A[k]) = ny
                         /\ \A j \in 1..ny : Len(A[k][j]) = nx

\* C1: every grid fielddata_from_df returns has nx*ny*nz equal to the number
\* of rows of the table, nx, ny, nz being the counts of distinct x, y, z
\* values and the shape of every returned array; a table whose row count
\* differs from that product makes the call fail.
C1_GridInvariant ==
    grid # NotCalled =>
        /\ grid.err = "none" =>
              /\ grid.grid_dims.nx = DistinctX
              /\ grid.grid_dims.ny = DistinctY
              /\ grid.grid_dims.nz = DistinctZ
              /\ DistinctX * DistinctY * DistinctZ = Len(df.rows)
              /\ \A key \in DOMAIN grid.grid_data :
                    HasShape(grid.grid_data[key], DistinctZ, DistinctY, DistinctX)
        /\ DistinctX * DistinctY * DistinctZ # Len(df.rows) => grid.err = "ValueError"

\* a 2 x 2 (or larger) grid was reconstructed
C1_Witness ==
    /\ grid # NotCalled
    /\ grid.err = "none"
    /\ DistinctX >= 2
    /\ DistinctY >= 2
    /\ Len(df.rows) >= 4

\* C2 as stated: for a table ordered x fastest, then y, then z, flattening
\* each of X, Y, Z, U, V, W row-major gives back the column exactly.
C2_RoundTripExact ==
    (grid # NotCalled /\ OrderedRows) =>
        /\ grid.err = "none"
        /\ \A key \in VelKeys :
              Ravel3(grid.grid_data[key]) = Column(df, GridCol[key])

\* C2 amended: for a table ordered x fastest, then y, then z, flattening each
\* of X, Y, Z, U, V, W row-major gives back the column in the original row
\* order with every value rounded to single precision (so exactly the column
\* when its values are float32 numbers).
C2_RoundTripFloat32 ==
    (grid # NotCalled /\ OrderedRows) =>
        /\ grid.err = "none"
        /\ \A key \in VelKeys :
              /\ Len(Ravel3(grid.grid_data[key])) = Len(df.rows)
              /\ \A r \in DOMAIN df.rows :
                    Ravel3(grid.grid_data[key])[r] = Float32(df.rows[r][GridCol[key]])

\* an ordered table of several rows was reconstructed, one of whose velocities
\* is no float32 number and differs from its neighbour's
C2_Witness ==
    /\ grid # NotCalled
    /\ OrderedRows
    /\ grid.err = "none"
    /\ Len(df.rows) >= 4
    /\ \E r \in DOMAIN df.rows :
          /\ Float32(df.rows[r][u_col_name]) # df.rows[r][u_col_name]
          /\ r > 1
          /\ df.rows[r][u_col_name] # df.rows[r - 1][u_col_name]

\* ------------------------------------------------------------------------
\* Properties of CactusField
\* ------------------------------------------------------------------------
Called(op) == ret # NotCalled /\ ret.op = op

\* the files of the run carry no freestream columns
NoFreestream == \A f \in DOMAIN files : ~HasVelFs(files[f].df)

\* indices (from 0) of the sorted time list selected by [ti_start, ti_end),
\* negative indices counted from the end
WindowIndices ==
    LET n == Len(cf.times)
        lo == IF ret.ti_start < 0 THEN Max2(n + ret.ti_start, 0) ELSE ret.ti_start
        hi == IF ret.ti_end < 0 THEN n + ret.ti_end ELSE Min2(ret.ti_end, n)
    IN  {k \in 0..(n - 1) : lo <= k /\ k < hi}

\* the reconstructed snapshot of the timestep at index k (from 0) of the sorted
\* time list
Snapshot(k) == fielddata_from_df(files[cf.fdict[cf.times[k + 1]]].df).grid_data

\* the snapshots lo..k of array key added up one after the other, in
\* increasing time order, in single precision
RECURSIVE SumInOrder(_, _, _)
SumInOrder(key, lo, k) ==
    IF k = lo THEN Snapshot(lo)[key]
    ELSE AddArray(SumInOrder(key, lo, k - 1), Snapshot(k)[key])

\* C7 as stated: field_time_average(ti_start, ti_end) returns, for each of U,
\* V, W, the sum over the timesteps with index in [ti_start, ti_end) of the
\* sorted time list (negative indices from the end), accumulated in
\* increasing time order, divided by the number of those timesteps.
C7_TimeAverage ==
    (Called("field_time_average") /\ WindowIndices # {}) =>
        LET lo == SetMin(WindowIndices)
            hi == SetMax(WindowIndices)
        IN  /\ ret.out.err = "none"
            /\ \A key \in {"U", "V", "W"} :
                  ret.out.data[key]
                      = DivArray(SumInOrder(key, lo, hi), Cardinality(WindowIndices))

\* C7, on files that carry the freestream columns (what is left of the claim
\* once the missing-column failure of C9 is set aside)
C7_TimeAverageWithFreestream ==
    (Called("field_time_average") /\ WindowIndices # {} /\ ~NoFreestream) =>
        LET lo == SetMin(WindowIndices)
            hi == SetMax(WindowIndices)
        IN  /\ ret.out.err = "none"
            /\ ret.out.data["t"] = [i \in 1..Cardinality(WindowIndices) |-> cf.times[lo + i]]
            /\ \A key \in {"U", "V", "W"} :
                  ret.out.data[key]
                      = DivArray(SumInOrder(key, lo, hi), Cardinality(WindowIndices))

\* an array of fractions equal, element by element, to a float32 array
SameValues(Q, A) ==
    /\ DOMAIN Q = DOMAIN A
    /\ \A k \in DOMAIN A :
          /\ DOMAIN Q[k] = DOMAIN A[k]
          /\ \A j \in DOMAIN A[k] :
                /\ DOMAIN Q[k][j] = DOMAIN A[k][j]
                /\ \A i \in DOMAIN A[k][j] : Q[k][j][i] = <<A[k][j][i], 1>>

\* C8 as stated: averaging over a window of exactly one timestep returns
\* that timestep's reconstructed X, Y, Z, U, V, W unchanged.
C8_Idempotence ==
    (Called("field_time_average") /\ Cardinality(WindowIndices) = 1) =>
        LET k == SetMin(WindowIndices)
        IN  /\ ret.out.err = "none"
            /\ \A key \in {"X", "Y", "Z"} : ret.out.data[key] = Snapshot(k)[key]
            /\ \A key \in {"U", "V", "W"} : SameValues(ret.out.data[key], Snapshot(k)[key])

\* C8, on files that carry the freestream columns
C8_IdempotenceWithFreestream ==
    (Called("field_time_average") /\ Cardinality(WindowIndices) = 1 /\ ~NoFreestream) =>
        LET k == SetMin(WindowIndices)
        IN  /\ ret.out.err = "none"
            /\ \A key \in {"X", "Y", "Z"} : ret.out.data[key] = Snapshot(k)[key]
            /\ \A key \in {"U", "V", "W", "Ufs", "Vfs", "Wfs"} :
                  SameValues(ret.out.data[key], Snapshot(k)[key])

\* C9 as stated: on files without the freestream columns, a call that
\* reaches the fields (a window with a timestep in it) either leaves the
\* freestream fields out of its result or fails with a condition of its own,
\* FreestreamDataAbsent.
C9_FreestreamAbsent ==
    (ret # NotCalled /\ NoFreestream /\ WindowIndices # {}) =>
        \/ ret.out.err = "FreestreamDataAbsent"
        \/ /\ ret.out.err = "none"
           /\ DOMAIN ret.out.data \cap (FsKeys \cup {"ufs", "vfs", "wfs"}) = {}

\* the node indices (k, j, i) of the node at which point p lies, if any
NodesAt(p) ==
    {c \in (0..(Len(grd[3]) - 1)) \X (0..(Len(grd[2]) - 1)) \X (0..(Len(grd[1]) - 1)) :
        p = <<grd[1][c[3] + 1], grd[2][c[2] + 1], grd[3][c[1] + 1]>>}

\* C10 as stated: a point that coincides with a grid node is resolved to the
\* index triple (zi, yi, xi) of that node, and the U, V, W recorded for it
\* at every selected timestep are the values stored at that node.
C10_NearestNode ==
    Called("pointdata_time_series") =>
        \A pi \in DOMAIN ret.p_list : \A c \in NodesAt(ret.p_list[pi]) :
            /\ ret.out.err = "none"
            /\ ret.out.kji_nearest[pi] = c
            /\ \A k \in WindowIndices :
                  LET ti == k - SetMin(WindowIndices) + 1
                  IN  /\ ret.out.data.u[pi][ti] = At3(Snapshot(k)["U"], c)
                      /\ ret.out.data.v[pi][ti] = At3(Snapshot(k)["V"], c)
                      /\ ret.out.data.w[pi][ti] = At3(Snapshot(k)["W"], c)

\* C10, on files that carry the freestream columns and whose x coordinates
\* ascend and stay distinct in single precision
C10_NearestNodePlainGrid ==
    (/\ Called("pointdata_time_series")
     /\ ~NoFreestream
     /\ \A i \in 1..(Len(grd[1]) - 1) : Float32(grd[1][i]) < Float32(grd[1][i + 1])) =>
        \A pi \in DOMAIN ret.p_list : \A c \in NodesAt(ret.p_list[pi]) :
            /\ ret.out.err = "none"
            /\ ret.out.kji_nearest[pi] = c
            /\ \A k \in WindowIndices :
                  LET ti == k - SetMin(WindowIndices) + 1
                  IN  /\ ret.out.data.u[pi][ti] = At3(Snapshot(k)["U"], c)
                      /\ ret.out.data.v[pi][ti] = At3(Snapshot(k)["V"], c)
                      /\ ret.out.data.w[pi][ti] = At3(Snapshot(k)["W"], c)

\* the point resolution of the call was carried out: its index triples exist
Resolved == Called("pointdata_time_series") /\ "kji_nearest" \in DOMAIN ret.out

\* index i (from 0) is in range on the axis ax and no node of ax is nearer to
\* the coordinate v than the node at i
NearestOn(ax, i, v) ==
    /\ i \in 0..(Len(ax) - 1)
    /\ \A o \in DOMAIN ax : Abs(ax[i + 1] - v) <= Abs(ax[o] - v)

\* C11 as stated: every requested point, inside the bounding box of the grid
\* or outside of it, is resolved, and each of its indices zi, yi, xi is the
\* in-range index of the grid node nearest to the point on that axis.
C11_ClampedNearest ==
    Called("pointdata_time_series") =>
        /\ Resolved
        /\ \A pi \in DOMAIN ret.p_list :
              LET c == ret.out.kji_nearest[pi]
                  p == ret.p_list[pi]
              IN  /\ NearestOn(grd[3], c[1], p[3])
                  /\ NearestOn(grd[2], c[2], p[2])
                  /\ NearestOn(grd[1], c[3], p[1])

\* the distinct single-precision values of the axis ax in increasing order
\* (what np.unique makes of the reconstructed coordinate array)
SortedAxis(ax) == SortedSeq({Float32(ax[i]) : i \in DOMAIN ax})

\* What holds of point resolution on every grid: it is carried out for every
\* point, each index is within the grid, and it is the position, among the
\* distinct axis values in increasing order, of the value nearest to the point.
C11_NearestOnSortedAxis ==
    Called("pointdata_time_series") =>
        /\ Resolved
        /\ \A pi \in DOMAIN ret.p_list :
              LET c == ret.out.kji_nearest[pi]
                  p == ret.p_list[pi]
              IN  /\ c[1] < Len(grd[3]) /\ NearestOn(SortedAxis(grd[3]), c[1], p[3])
                  /\ c[2] < Len(grd[2]) /\ NearestOn(SortedAxis(grd[2]), c[2], p[2])
                  /\ c[3] < Len(grd[1]) /\ NearestOn(SortedAxis(grd[1]), c[3], p[1])

\* C11, on grids whose x coordinates ascend and stay distinct in single
\* precision
C11_ClampedNearestPlainGrid ==
    (/\ Called("pointdata_time_series")
     /\ \A i \in 1..(Len(grd[1]) - 1) : Float32(grd[1][i]) < Float32(grd[1][i + 1])) =>
        /\ Resolved
        /\ \A pi \in DOMAIN ret.p_list :
              LET c == ret.out.kji_nearest[pi]
                  p == ret.p_list[pi]
              IN  /\ NearestOn(grd[3], c[1], p[3])
                  /\ NearestOn(grd[2], c[2], p[2])
                  /\ NearestOn(grd[1], c[3], p[1])

\* a point beyond the largest x of a descending axis was resolved
C11_DescendingOutOfBox ==
    /\ Resolved
    /\ Len(grd[1]) = 2
    /\ grd[1][1] > grd[1][2]
    /\ \E pi \in DOMAIN ret.p_list : ret.p_list[pi][1] > grd[1][1]

\* C19: when times[ti_start:ti_end] selects no timestep, field_time_average
\* fails and returns no data.
C19_EmptyWindowFails ==
    (Called("field_time_average") /\ WindowIndices = {}) =>
        /\ ret.out.err # "none"
        /\ "data" \notin DOMAIN ret.out

\* the default window, ti_start = -5 and ti_end = -1, on a dataset of a single
\* timestep with the freestream columns: the call failed where the sum is
\* divided
C19_Witness ==
    /\ Called("field_time_average")
    /\ Len(files) = 1
    /\ ~NoFreestream
    /\ ret.ti_start = -5
    /\ ret.ti_end = -1
    /\ ret.out.err = "UnboundLocalError"

\* ------------------------------------------------------------------------
\* Properties of the time index
\* ------------------------------------------------------------------------
Constructed == cf # NotCalled /\ cf.err = "none"

\* the time in the first data row of file f
FirstRowTime(f) == files[f].df.rows[1][time_col_name]

\* C12: after construction the keys of fdict are the times of the list (one
\* key per distinct time), the list holds the time of every file in
\* ascending order whatever the order of the files, and looking up a time of
\* the list gives a file whose first data row carries that time.
C12_SortedTimes ==
    /\ Constructed =>
          /\ Len(cf.times) = Len(files)
          /\ \A i, j \in DOMAIN cf.times : i < j => cf.times[i] <= cf.times[j]
          /\ \A t \in TimeVals :
                Cardinality({i \in DOMAIN cf.times : cf.times[i] = t})
                    = Cardinality({f \in DOMAIN files : FirstRowTime(f) = t})
          /\ DOMAIN cf.fdict = Range(cf.times)
          /\ \A i \in DOMAIN cf.times :
                /\ cf.fdict[cf.times[i]] \in DOMAIN files
                /\ FirstRowTime(cf.fdict[cf.times[i]]) = cf.times[i]
    /\ (Constructed /\ Called("get_df_inst") /\ ret.time \in Range(cf.times)) =>
          /\ ret.out.err = "none"
          /\ ret.out.df_inst = files[ret.out.fname].df
          /\ ret.out.df_inst.rows[1][time_col_name] = ret.time

\* files given with times 2, 1, 3: the list is 1, 2, 3 and the time 1 was
\* looked up
C12_Witness ==
    /\ Constructed
    /\ Len(files) = 3
    /\ [f \in 1..3 |-> FirstRowTime(f)] = <<2, 1, 3>>
    /\ cf.times = <<1, 2, 3>>
    /\ Called("get_df_inst")
    /\ ret.time = 1
    /\ ret.out.err = "none"
    /\ ret.out.fname = 2

\* the header line of the file has a column named exactly time_col_name (the
\* line terminator is not part of a name)
HasTimeColumn(file) ==
    \E c \in DOMAIN file.header :
        \/ file.header[c] = time_col_name
        \/ file.header[c] = time_col_name \o "\n"

\* C13 as stated: construction fails with the missing-column failure
\* (ValueError of list.index) whenever the header line of a file has no
\* column named exactly time_col_name, and extracts the time of every file
\* whenever every header line has that column.
C13_MissingColumn ==
    cf # NotCalled =>
        /\ (\E f \in DOMAIN files : ~HasTimeColumn(files[f])) => cf.err = "ValueError"
        /\ (\A f \in DOMAIN files : HasTimeColumn(files[f])) =>
              /\ cf.err = "none"
              /\ Len(cf.times) = Len(files)

\* a field of header.split(',') is exactly time_col_name
HasExactField(file) == \E c \in DOMAIN file.header : file.header[c] = time_col_name

\* What holds of get_file_time: construction fails with ValueError whenever
\* no comma-separated field of a header line is exactly time_col_name (a
\* blank before the name or the line terminator after it count), and
\* extracts every time whenever each file has such a field and a data row.
C13_ExactFieldMatch ==
    cf # NotCalled =>
        /\ (\E f \in DOMAIN files : ~HasExactField(files[f])) => cf.err = "ValueError"
        /\ (\A f \in DOMAIN files : HasExactField(files[f]) /\ files[f].df.rows # <<>>) =>
              /\ cf.err = "none"
              /\ Len(cf.times) = Len(files)

\* ------------------------------------------------------------------------
\* Properties of CactusWakeGrid
\* ------------------------------------------------------------------------
\* the grid count of the object obj along an axis
CountAlong(obj, axis) ==
    CASE axis = "x" -> obj.nx
      [] axis = "y" -> obj.ny
      [] axis = "z" -> obj.nz

\* a slice_in_space call along x, y or z on an object that still holds its
\* full 4-d fields
SliceOfFullGrid ==
    /\ Called("slice_in_space")
    /\ ret.axis \in {"x", "y", "z"}
    /\ ret.pre.U.ndim = 4

\* the value of column c in the source row of time t and grid indices k, j, i
\* (all from 0)
SourceValue(c, t, k, j, i) ==
    LET nx == ret.pre.nx
        ny == ret.pre.ny
        nz == ret.pre.nz
    IN  df.rows[t * nz * ny * nx + k * ny * nx + j * nx + i + 1][c]

\* the array S is the plane at index ret.i along ret.axis of column c, of
\* shape [nt, n2, n1]
IsPlaneOf(S, c) ==
    LET nt == ret.pre.nt
        nx == ret.pre.nx
        ny == ret.pre.ny
        nz == ret.pre.nz
        n2 == IF ret.axis = "z" THEN ny ELSE nz
        n1 == IF ret.axis = "x" THEN ny ELSE nx
    IN  /\ S.ndim = 3
        /\ HasShape(S.a, nt, n2, n1)
        /\ \A t \in 0..(nt - 1), a \in 0..(n2 - 1), b \in 0..(n1 - 1) :
              S.a[t + 1][a + 1][b + 1] =
                  CASE ret.axis = "x" -> SourceValue(c, t, a, b, ret.i)
                    [] ret.axis = "y" -> SourceValue(c, t, a, ret.i, b)
                    [] ret.axis = "z" -> SourceValue(c, t, ret.i, a, b)

\* C3: slice_in_space(axis, i) with 0 <= i < count along the axis returns U,
\* V, W of shape [nt, n2, n1] whose element for time t and the two
\* remaining grid indices is the value of the source row
\* t*nz*ny*nx + k*ny*nx + j*nx + i' with the sliced index fixed at i.
C3_SliceInSpace ==
    (SliceOfFullGrid /\ 0 <= ret.i /\ ret.i < CountAlong(ret.pre, ret.axis)) =>
        /\ ret.out.err = "none"
        /\ IsPlaneOf(ret.out.U, u_col_name)
        /\ IsPlaneOf(ret.out.V, v_col_name)
        /\ IsPlaneOf(ret.out.W, w_col_name)

\* the plane x = 1 was taken from a grid of two times, nx = 2, ny = 2, nz = 1
C3_Witness ==
    /\ SliceOfFullGrid
    /\ ret.axis = "x"
    /\ ret.i = 1
    /\ ret.pre.nt = 2
    /\ ret.pre.nx = 2
    /\ ret.pre.ny = 2
    /\ ret.pre.nz = 1
    /\ ret.out.err = "none"

\* C4 as stated: slice_in_space with an index outside 0 <= i < count along
\* the axis, every negative index included, fails with an index error and
\* returns no plane.
C4_IndexOutOfRange ==
    (SliceOfFullGrid /\ ~(0 <= ret.i /\ ret.i < CountAlong(ret.pre, ret.axis))) =>
        ret.out.err = "IndexError"

\* what the code does with an index outside 0 <= i < count: IndexError for
\* i >= count and for i < -count; for -count <= i < 0 the plane count + i
C4_NegativeIndexWraps ==
    (SliceOfFullGrid /\ ~(0 <= ret.i /\ ret.i < CountAlong(ret.pre, ret.axis))) =>
        LET n == CountAlong(ret.pre, ret.axis)
        IN  IF -n <= ret.i /\ ret.i < 0
            THEN /\ ret.out.err = "none"
                 /\ ret.out.U = slice_in_space(ret.pre, ret.axis, ret.i + n, FALSE).out.U
            ELSE ret.out.err = "IndexError"

\* ------------------------------------------------------------------------
\* Properties of the time statistics
\* ------------------------------------------------------------------------
\* the index (from 0) of the first of the times nearest to t
NearestTimeIndex(t) ==
    SetMin({k \in 0..(Len(series.times) - 1) :
              \A o \in DOMAIN series.times :
                  Abs(series.times[k + 1] - t) <= Abs(series.times[o] - t)})

\* the start index: 0 below the first time, else the nearest time
ResolvedStart ==
    IF ret.t_start < series.times[1] THEN 0 ELSE NearestTimeIndex(ret.t_start)

\* the end index: the final index for the sentinel -1 and beyond the last
\* time, else the nearest time
ResolvedEnd ==
    IF ret.t_end = -1 \/ ret.t_end > series.times[Len(series.times)]
    THEN Len(series.times) - 1
    ELSE NearestTimeIndex(ret.t_end)

\* st holds the mean, standard deviation, minimum and maximum of exactly the
\* samples with index (from 0) in [lo, hi)
StatsCover(st, lo, hi) ==
    LET K == {k \in 0..(Len(series.field) - 1) : lo <= k /\ k < hi}
        n == Cardinality(K)
        f(k) == series.field[k + 1]
        sum == SeqSum([i \in 1..n |-> f(lo + i - 1)])
        sumsq == SeqSum([i \in 1..n |-> f(lo + i - 1) * f(lo + i - 1)])
    IN  /\ K # {}
        /\ st.mean[1] * n = st.mean[2] * sum
        /\ st.stdf[1] * n * n = st.stdf[2] * (n * sumsq - sum * sum)
        /\ \E k \in K : st.minf = f(k)
        /\ \A k \in K : st.minf <= f(k)
        /\ \E k \in K : st.maxf = f(k)
        /\ \A k \in K : st.maxf >= f(k)

\* C5 as stated: with t_start below times[0] the call warns, does not fail,
\* and computes the statistics over the samples [0, resolved_end).
C5_ClampedStart ==
    (Called("field_time_stats") /\ ret.t_start < series.times[1]) =>
        /\ "start outside of the range" \in ret.out.warnings
        /\ ret.out.err = "none"
        /\ StatsCover(ret.out.stats, 0, ResolvedEnd)

\* C5 amended: with t_start below times[0] the call warns and computes the
\* statistics over the samples [0, resolved_end); it does not fail when that
\* window holds a sample (resolved_end >= 1), and fails with ValueError at
\* the minimum when resolved_end = 0.
C5_ClampedStartNonEmpty ==
    (Called("field_time_stats") /\ ret.t_start < series.times[1]) =>
        /\ "start outside of the range" \in ret.out.warnings
        /\ IF ResolvedEnd >= 1
           THEN /\ ret.out.err = "none"
                /\ StatsCover(ret.out.stats, 0, ResolvedEnd)
           ELSE ret.out.err = "ValueError"

\* t_start below the first of three times, t_end at the last one: the
\* statistics are those of the first two samples, which differ
C5_Witness ==
    /\ Called("field_time_stats")
    /\ ret.t_start < series.times[1]
    /\ series.times = <<0, 2, 3>>
    /\ ret.t_end = 3
    /\ series.field[1] # series.field[2]
    /\ ret.out.err = "none"
    /\ ret.out.stats.minf # ret.out.stats.maxf

\* C6: the end index resolved for t_end is an exclusive bound: the
\* statistics cover exactly the samples index_start <= k < index_end, the
\* sample at the resolved end index left out (the last sample for the
\* sentinel -1 and for t_end beyond the last time); with no sample in that
\* range there are no statistics and the call fails.
C6_ExclusiveEnd ==
    Called("field_time_stats") =>
        IF ResolvedStart < ResolvedEnd
        THEN /\ ret.out.err = "none"
             /\ StatsCover(ret.out.stats, ResolvedStart, ResolvedEnd)
        ELSE ret.out.err = "ValueError"

\* "to the end" on three samples whose last is the largest: the maximum
\* returned is smaller than the last sample
C6_Witness ==
    /\ Called("field_time_stats")
    /\ ret.t_end = -1
    /\ Len(series.field) = 3
    /\ ret.out.err = "none"
    /\ ret.out.stats.maxf < series.field[3]

\* ------------------------------------------------------------------------
\* Properties of the turbulent kinetic energy
\* ------------------------------------------------------------------------
\* C14: every element of the field that calc_tke returns is >= 0.
C14_TkeNonNegative ==
    (Called("calc_tke") /\ ret.out.err = "none") =>
        \A p \in DOMAIN ret.out.tke :
            /\ ret.out.tke[p][2] > 0
            /\ ret.out.tke[p][1] >= 0

\* a call over a window that leaves the last sample out returned a positive
\* energy at a point where U lies above its window mean at one sample and
\* below it at another
C14_Witness ==
    /\ Called("calc_tke")
    /\ ret.out.err = "none"
    /\ Len(series.times) = 3
    /\ ret.t_start = 0
    /\ ret.t_end = series.times[3]
    /\ series.U[1][1] < series.U[2][1]
    /\ series.U[3][1] < series.U[1][1]
    /\ ret.out.tke[1][1] > 0

\* the mean of the samples lo..hi-1 (from 0) of element p of the field F
WindowMean(F, p, lo, hi) ==
    Div(SeqSum([i \in 1..(hi - lo) |-> F[lo + i][p]]), hi - lo)

\* the mean over every sample of F of the squared difference between the
\* mean m (a fraction) and element p of the sample
FullMeanSquare(F, p, m) ==
    Div(SeqSum([t \in DOMAIN F |-> (m[1] - F[t][p] * m[2]) * (m[1] - F[t][p] * m[2])]),
        m[2] * m[2] * Len(F))

ColumnValues(c) == {df.rows[r][c] : r \in DOMAIN df.rows}

\* the fraction d is the extent of column c over its count of distinct values
IsExtentOverCount(d, c) ==
    /\ d[2] > 0
    /\ d[1] * Cardinality(ColumnValues(c))
           = (SetMax(ColumnValues(c)) - SetMin(ColumnValues(c))) * d[2]

\* the table df is a grid of 2 x 2 x 2 nodes with U = V = W = 1 at every node
TwoCubedOfOnes ==
    /\ Len(df.rows) = 8
    /\ DistinctX = 2 /\ DistinctY = 2 /\ DistinctZ = 2
    /\ \A r \in DOMAIN df.rows :
          df.rows[r][u_col_name] = 1 /\ df.rows[r][v_col_name] = 1 /\ df.rows[r][w_col_name] = 1

\* a 2 x 2 x 2 array of ones
Ones3 == [k \in 1..2 |-> [j \in 1..2 |-> [i \in 1..2 |-> 1]]]

\* C16: the spacing that reconstruction returns (fielddata_from_df and
\* CactusWakeGrid alike) is, on each of x, y, z, the extent of the axis
\* divided by its count of distinct values; a 2 x 2 x 2 grid of ones gives
\* three 2 x 2 x 2 arrays of ones and dx, dy, dz each half the extent.
C16_GridSpacing ==
    /\ (grid # NotCalled /\ grid.err = "none") =>
          /\ IsExtentOverCount(grid.grid_dims.dx, x_col_name)
          /\ IsExtentOverCount(grid.grid_dims.dy, y_col_name)
          /\ IsExtentOverCount(grid.grid_dims.dz, z_col_name)
    /\ (wake # NotCalled /\ wake.err = "none") =>
          /\ IsExtentOverCount(wake.dx, x_col_name)
          /\ IsExtentOverCount(wake.dy, y_col_name)
          /\ IsExtentOverCount(wake.dz, z_col_name)
    /\ (grid # NotCalled /\ TwoCubedOfOnes) =>
          /\ grid.err = "none"
          /\ \A key \in {"U", "V", "W"} : grid.grid_data[key] = Ones3
          /\ 2 * grid.grid_dims.dx[1]
                 = (grid.grid_dims.xlim[2] - grid.grid_dims.xlim[1]) * grid.grid_dims.dx[2]
          /\ 2 * grid.grid_dims.dy[1]
                 = (grid.grid_dims.ylim[2] - grid.grid_dims.ylim[1]) * grid.grid_dims.dy[2]
          /\ 2 * grid.grid_dims.dz[1]
                 = (grid.grid_dims.zlim[2] - grid.grid_dims.zlim[1]) * grid.grid_dims.dz[2]

\* the 2 x 2 x 2 grid of ones on the nodes 0, 1 of each axis was
\* reconstructed both ways: dx = dy = dz = 1/2
C16_Witness ==
    /\ TwoCubedOfOnes
    /\ ColumnValues(x_col_name) = {0, 1}
    /\ ColumnValues(y_col_name) = {0, 1}
    /\ ColumnValues(z_col_name) = {0, 1}
    /\ grid # NotCalled /\ grid.err = "none"
    /\ grid.grid_dims.dx = <<1, 2>> /\ grid.grid_dims.dy = <<1, 2>>
    /\ grid.grid_dims.dz = <<1, 2>>
    /\ grid.grid_data["U"] = Ones3
    /\ wake # NotCalled /\ wake.err = "none"
    /\ wake.dx = <<1, 2>> /\ wake.dy = <<1, 2>> /\ wake.dz = <<1, 2>>

\* ------------------------------------------------------------------------
\* Properties of slicing in place
\* ------------------------------------------------------------------------
\* the attributes of a CactusWakeGrid besides its stored fields U, V, W
GridAttributes == {"times", "num_times", "nt", "nx", "ny", "nz",
                   "dx", "dy", "dz", "X", "Y", "Z"}

\* C17: slice_in_space with inplace=False leaves every attribute of the
\* object as it was; with inplace=True it puts the returned slices in place
\* of the stored U, V, W and leaves X, Y, Z, times, nt, nx, ny, nz, dx, dy, dz
\* as they were (a call that fails changes nothing).
C17_InplaceFrame ==
    Called("slice_in_space") =>
        /\ ~ret.inplace => wake = ret.pre
        /\ ret.out.err # "none" => wake = ret.pre
        /\ (ret.inplace /\ ret.out.err = "none") =>
              /\ wake.U = ret.out.U /\ wake.V = ret.out.V /\ wake.W = ret.out.W
              /\ \A a \in GridAttributes : wake[a] = ret.pre[a]
              /\ DOMAIN wake = DOMAIN ret.pre

\* an in-place slice of a grid with two nodes on each axis and two times
\* succeeded: the stored fields are now its slices, of three dimensions
C17_Witness ==
    /\ Called("slice_in_space")
    /\ ret.inplace
    /\ ret.out.err = "none"
    /\ ret.pre.nx = 2 /\ ret.pre.ny = 2 /\ ret.pre.nz = 2 /\ ret.pre.nt = 2
    /\ ret.pre.U.ndim = 4
    /\ wake.U.ndim = 3
    /\ wake.U = ret.out.U
    /\ wake.X = ret.pre.X

\* the stored fields of the object are slices: an in-place slice succeeded
Sliced == wake # NotCalled /\ wake.err = "none" /\ wake.U.ndim = 3

\* C18: once an in-place slice has succeeded the stored U, V, W are of three
\* dimensions while nx, ny, nz still count the nodes of the full grid, and
\* every later slice_in_space call, whatever its axis, index and flag, fails
\* and leaves the object as it was; so no second in-place slice succeeds.
C18_OneInplaceSlice ==
    /\ [](Sliced =>
            /\ wake.V.ndim = 3 /\ wake.W.ndim = 3
            /\ wake.nx = DistinctX /\ wake.ny = DistinctY /\ wake.nz = DistinctZ)
    /\ [][Sliced => (ret'.out.err # "none" /\ wake' = wake)]_vars

\* a second in-place slice was tried on an object already sliced in place,
\* and failed
C18_Witness ==
    /\ Called("slice_in_space")
    /\ ret.pre.U.ndim = 3
    /\ ret.inplace
    /\ ret.out.err = "IndexError"
    /\ wake = ret.pre

\* ------------------------------------------------------------------------
\* Properties of the probe catalogue
\* ------------------------------------------------------------------------
\* id is a probe of the latest scan, recorded under the path found at its
\* position, with the location that the second line of that file gives
FromOwnFile(id) ==
    /\ id + 1 \in DOMAIN files
    /\ id \in DOMAIN probes.probe_filenames
    /\ probes.probe_filenames[id] = files[id + 1].path
    /\ Len(files[id + 1].splitline) \in {3, 4}
    /\ probes.probe_locations[id] = SubSeq(files[id + 1].splitline, 1, 3)

\* C20 as stated: after any sequence of read_probe_files calls every probe
\* id of probe_locations is an id of the latest scan and maps to the location
\* parsed from the second line of the file recorded for it; no location
\* comes from another file or from an earlier scan, whatever the number of
\* fields of a second line.
C20_OwnLocation ==
    Called("read_probe_files") =>
        \A id \in DOMAIN probes.probe_locations : FromOwnFile(id)

\* What holds: a first scan of files whose second lines all have 3 or 4
\* fields succeeds and records every probe from its own file.
C20_FirstCleanScan ==
    (/\ Called("read_probe_files")
     /\ ret.scan = 1
     /\ \A k \in DOMAIN files : Len(files[k].splitline) \in {3, 4}) =>
        /\ ret.out.err = "none"
        /\ DOMAIN probes.probe_locations = 0..(Len(files) - 1)
        /\ DOMAIN probes.probe_filenames = 0..(Len(files) - 1)
        /\ \A id \in DOMAIN probes.probe_locations : FromOwnFile(id)

\* a single scan recorded, for the second file, whose second line has two
\* fields, the location of the first file
C20_StaleLocation ==
    /\ Called("read_probe_files")
    /\ ret.scan = 1
    /\ Len(files) = 2
    /\ Len(files[2].splitline) = 2
    /\ ret.out.err = "none"
    /\ probes.probe_filenames[1] = files[2].path
    /\ probes.probe_locations[1] = files[1].splitline
====
